---- MODULE Spec2Model ----
(***************************************************************************)
(* Model of src/lib.rs of windows-ext-icons: fetch_icon_as_image,          *)
(* hicon_to_image and bgra_to_rgba.  The Win32 calls are an environment    *)
(* whose return values are chosen nondeterministically; the model counts   *)
(* every release call the code makes.                                      *)
(*                                                                         *)
(* u32 / usize values are little-endian sequences of base-256 digits so    *)
(* that 32-bit wrap-around and the 64-bit checked multiplication of        *)
(* ImageBuffer::from_raw are computed at their real width.                 *)
(***************************************************************************)
EXTENDS Integers, Sequences, FiniteSets, TLC

VARIABLES
    build,          \* "debug" (overflow checks panic) or "release" (wrapping)
    caller,         \* "none", "fetch" (fetch_icon_as_image) or "hicon" (hicon_to_image called directly)
    fpc,            \* position inside fetch_icon_as_image
    hpc,            \* position inside hicon_to_image
    fKind, fErr,    \* outcome of fetch_icon_as_image
    hKind, hErr,    \* outcome of hicon_to_image
    iconObtained,   \* image_list.GetIcon returned an HICON
    destroyCalls,   \* number of DestroyIcon invocations
    xHotspot, yHotspot,   \* icon_info.xHotspot / yHotspot (u32)
    acquired,       \* handles created so far during the call
    released,       \* handle -> number of DeleteDC / DeleteObject invocations
    biBitCount,     \* bmp_info.bmiHeader.biBitCount
    readOk,         \* GetDIBits returned non-zero
    pixel_data,     \* the Vec<u8>
    rawRead,        \* pixel_data as GetDIBits left it
    reorderCalls,   \* number of bgra_to_rgba invocations made by hicon_to_image
    reorderIn,      \* the buffer handed to bgra_to_rgba by hicon_to_image
    image,          \* the returned RgbaImage: width, height, pixels
    data,           \* buffer of a direct bgra_to_rgba caller
    dataIn,         \* that buffer before the latest bgra_to_rgba call
    orig,           \* that buffer before the first bgra_to_rgba call
    applied         \* number of direct bgra_to_rgba calls

vars == <<build, caller, fpc, hpc, fKind, fErr, hKind, hErr, iconObtained,
          destroyCalls, xHotspot, yHotspot, acquired, released, biBitCount,
          readOk, pixel_data, rawRead, reorderCalls, reorderIn, image,
          data, dataIn, orig, applied>>

fetchVars == <<fpc, fKind, fErr, iconObtained, destroyCalls>>
hiconVars == <<hpc, hKind, hErr, xHotspot, yHotspot, acquired, released,
               biBitCount, readOk, pixel_data, rawRead, reorderCalls,
               reorderIn, image>>
pureVars  == <<data, dataIn, orig, applied>>

----------------------------------------------------------------------------
(* Bounds *)

MaxHotspot == 2     \* low part of a hotspot value ranges over 0..MaxHotspot
MaxSeed    == 1     \* readback / input contents are drawn from seeds 0..MaxSeed
MaxLen     == 40    \* direct bgra_to_rgba callers pass buffers of 0..MaxLen bytes
MaxApply   == 2     \* a direct caller applies bgra_to_rgba at most MaxApply times

----------------------------------------------------------------------------
(* Fixed-width arithmetic on base-256 digit sequences (least significant first) *)

U32Limbs   == 4
UsizeLimbs == 8

Digit(x, i) == IF i <= Len(x) THEN x[i] ELSE 0

Max(a, b) == IF a >= b THEN a ELSE b

EqNat(x, y) == \A i \in 1..Max(Len(x), Len(y)) : Digit(x, i) = Digit(y, i)

LessEqNat(x, y) ==
    ~ \E i \in 1..Max(Len(x), Len(y)) :
          /\ Digit(x, i) > Digit(y, i)
          /\ \A j \in (i+1)..Max(Len(x), Len(y)) : Digit(x, j) = Digit(y, j)

IsZero(x) == \A i \in 1..Len(x) : x[i] = 0

RECURSIVE ConvSum(_, _, _, _)
ConvSum(x, y, k, i) ==
    IF i > Len(x) THEN 0
    ELSE (IF k - i + 1 >= 1 /\ k - i + 1 <= Len(y) THEN x[i] * y[k - i + 1] ELSE 0)
         + ConvSum(x, y, k, i + 1)

RECURSIVE MulDigits(_, _, _, _)
MulDigits(x, y, k, carry) ==
    IF k > Len(x) + Len(y) THEN <<>>
    ELSE LET s == carry + ConvSum(x, y, k, 1)
         IN  <<s % 256>> \o MulDigits(x, y, k + 1, s \div 256)

\* the exact product, Len(x) + Len(y) digits
MulExact(x, y) == MulDigits(x, y, 1, 0)

Fits(x, n) == \A i \in (n+1)..Len(x) : x[i] = 0

Trunc(x, n) == [i \in 1..n |-> Digit(x, i)]

\* u32 * u32 in a release build
WrappingMulU32(x, y) == Trunc(MulExact(x, y), U32Limbs)

\* u32 * u32 overflows (panics under overflow checks)
MulOverflowsU32(x, y) == ~ Fits(MulExact(x, y), U32Limbs)

U32(n) == <<n % 256, (n \div 256) % 256, (n \div 65536) % 256, 0>>

\* value of a digit sequence known to be below 2^24
ToInt(x) == Digit(x, 1) + 256 * Digit(x, 2) + 65536 * Digit(x, 3)

----------------------------------------------------------------------------
(* bgra_to_rgba *)

ChunkLen == 16

\* a control whose last pixel group is left in place
MaskLastGroupUnswapped ==
    <<2, 1, 0, 3,  6, 5, 4, 7,  10, 9, 8, 11,  12, 13, 14, 15>>

\* a control that rotates blue, green and red instead of swapping blue and red
MaskRotate ==
    <<2, 0, 1, 3,  6, 4, 5, 7,  10, 8, 9, 11,  14, 12, 13, 15>>

\* the _mm_setr_epi8 shuffle control
Mask == <<2, 1, 0, 3,  6, 5, 4, 7,  10, 9, 8, 11,  14, 13, 12, 15>>

\* _mm_shuffle_epi8: a control byte with its top bit set yields 0, otherwise
\* its low four bits index the source vector
ShuffleEpi8(vector, mask) ==
    [i \in 1..ChunkLen |->
        IF mask[i] >= 128 THEN 0 ELSE vector[(mask[i] % 16) + 1]]

\* chunks_exact_mut(16): the number of full windows
NumChunks(buf) == Len(buf) \div ChunkLen

\* a variant that also swaps the whole pixels of the trailing partial window
bgra_to_rgba_ScalarTail(buf) ==
    [i \in 1..Len(buf) |->
        LET c == (i - 1) \div ChunkLen
            p == (i - 1) \div 4
            k == (i - 1) % 4
        IN  IF c < NumChunks(buf)
            THEN ShuffleEpi8(SubSeq(buf, c * ChunkLen + 1, (c + 1) * ChunkLen), Mask)
                     [((i - 1) % ChunkLen) + 1]
            ELSE IF 4 * p + 4 <= Len(buf) /\ k = 0 THEN buf[i + 2]
            ELSE IF 4 * p + 4 <= Len(buf) /\ k = 2 THEN buf[i - 2]
            ELSE buf[i]]

bgra_to_rgba(buf) ==
    [i \in 1..Len(buf) |->
        LET c == (i - 1) \div ChunkLen
        IN  IF c < NumChunks(buf)
            THEN ShuffleEpi8(SubSeq(buf, c * ChunkLen + 1, (c + 1) * ChunkLen), Mask)
                     [((i - 1) % ChunkLen) + 1]
            ELSE buf[i]]

----------------------------------------------------------------------------
(* Environment: values the platform can hand back *)

\* top byte of a hotspot value: 0, 2^28 and 2^31 in the high part
HighBytes == {0, 16, 128}

HotspotVals == {<<a, 0, 0, h>> : a \in 0..MaxHotspot, h \in HighBytes}

BitCounts == {16, 24, 32}

Seeds == 0..MaxSeed

\* n bytes, pairwise different within any 256-byte stretch
PatternBytes(seed, n) == [i \in 1..n |-> (200 * seed + 7 * (i - 1)) % 256]

Handles == {"mem_dc", "screen_dc", "hbmColor", "hbmMask"}

NoImage == [width |-> U32(0), height |-> U32(0), pixels |-> <<>>]

----------------------------------------------------------------------------
(* hicon_to_image, lines 47-108 *)

\* `x as i32 * 2` overflows i32: 2^30 <= x < 3 * 2^30
I32TimesTwoOverflows(x) == x[4] >= 64 /\ x[4] < 192

\* -(x as i32 * 2) overflows: x as i32 * 2 = -2^31, i.e. x = 3 * 2^30
I32NegOverflows(x) == x[4] = 192 /\ x[3] = 0 /\ x[2] = 0 /\ x[1] = 0

\* a length that drops one of the two doublings
AllocLenOneDoubling(hx, hy) ==
    WrappingMulU32(WrappingMulU32(WrappingMulU32(hx, U32(2)), hy), U32(4))

\* xHotspot * 2 * yHotspot * 2 * 4, evaluated left to right in u32
AllocLen(hx, hy) ==
    WrappingMulU32(
        WrappingMulU32(
            WrappingMulU32(WrappingMulU32(hx, U32(2)), hy),
            U32(2)),
        U32(4))

AllocOverflows(hx, hy) ==
    LET a == WrappingMulU32(hx, U32(2))
        b == WrappingMulU32(a, hy)
        c == WrappingMulU32(b, U32(2))
    IN  \/ MulOverflowsU32(hx, U32(2))
        \/ MulOverflowsU32(a, hy)
        \/ MulOverflowsU32(b, U32(2))
        \/ MulOverflowsU32(c, U32(4))

\* ImageBuffer::from_raw accepts the buffer: 4 * width * height, computed with
\* checked multiplication in usize, is at most the buffer's length
FromRawFits(w, h, len) ==
    LET a == MulExact(U32(4), w)
        b == MulExact(Trunc(a, UsizeLimbs), h)
    IN  /\ Fits(a, UsizeLimbs)
        /\ Fits(b, UsizeLimbs)
        /\ LessEqNat(b, U32(len))

HPanic(msg) ==
    /\ hKind' = "panic"
    /\ hErr' = msg
    /\ hpc' = "ret"

HErr(msg) ==
    /\ hKind' = "err"
    /\ hErr' = msg
    /\ hpc' = "ret"

\* lines 49-56
GetIconInfoExW ==
    /\ hpc = "GetIconInfoExW"
    /\ \E ok \in BOOLEAN, hx \in HotspotVals, hy \in HotspotVals :
         IF ok
         THEN /\ xHotspot' = hx
              /\ yHotspot' = hy
              /\ acquired' = acquired \cup {"hbmColor", "hbmMask"}
              /\ hpc' = "CreateCompatibleDC"
              /\ UNCHANGED <<hKind, hErr>>
         ELSE /\ HErr("Failed to retrieve icon information")
              /\ UNCHANGED <<xHotspot, yHotspot, acquired>>
    /\ UNCHANGED <<released, biBitCount, readOk, pixel_data, rawRead,
                   reorderCalls, reorderIn, image>>
    /\ UNCHANGED <<build, caller, fetchVars, pureVars>>

\* lines 58-75: both device contexts, SelectObject, bmp_info, the Vec
Prepare ==
    /\ hpc = "CreateCompatibleDC"
    /\ acquired' = acquired \cup {"screen_dc", "mem_dc"}
    /\ IF /\ build = "debug"
          /\ \/ I32TimesTwoOverflows(xHotspot)
             \/ I32TimesTwoOverflows(yHotspot)
             \/ I32NegOverflows(yHotspot)
             \/ AllocOverflows(xHotspot, yHotspot)
       THEN /\ HPanic("attempt to multiply with overflow")
            /\ UNCHANGED <<biBitCount, pixel_data>>
       ELSE /\ biBitCount' = 32
            /\ pixel_data' = [i \in 1..ToInt(AllocLen(xHotspot, yHotspot)) |-> 0]
            /\ hpc' = "GetDIBits"
            /\ UNCHANGED <<hKind, hErr>>
    /\ UNCHANGED <<xHotspot, yHotspot, released, readOk, rawRead,
                   reorderCalls, reorderIn, image>>
    /\ UNCHANGED <<build, caller, fetchVars, pureVars>>

\* the rows GetDIBits is asked for do not fit the Vec
ReadbackOverruns ==
    ~ FromRawFits(WrappingMulU32(xHotspot, U32(2)),
                  WrappingMulU32(yHotspot, U32(2)),
                  Len(pixel_data))

\* lines 77-87
GetDIBits ==
    /\ hpc = "GetDIBits"
    /\ IF build = "debug" /\ MulOverflowsU32(yHotspot, U32(2))
       THEN /\ HPanic("attempt to multiply with overflow")
            /\ UNCHANGED <<biBitCount, readOk, pixel_data, rawRead>>
       ELSE \/ \E bits \in BitCounts :
                 \* a zero return
                 /\ biBitCount' = bits
                 /\ HErr("Failed to retrieve bitmap data")
                 /\ UNCHANGED <<readOk, pixel_data, rawRead>>
            \/ \E bits \in BitCounts, seed \in Seeds :
                 \* a non-zero return: the buffer and the descriptor are filled
                 /\ biBitCount' = bits
                 /\ readOk' = TRUE
                 /\ pixel_data' = PatternBytes(seed, Len(pixel_data))
                 /\ rawRead' = PatternBytes(seed, Len(pixel_data))
                 /\ hpc' = "DeleteDC_mem"
                 /\ UNCHANGED <<hKind, hErr>>
            \/ \* a write past the end of the Vec may fault
               /\ ReadbackOverruns
               /\ hKind' = "crash"
               /\ hErr' = "access violation"
               /\ hpc' = "ret"
               /\ UNCHANGED <<biBitCount, readOk, pixel_data, rawRead>>
    /\ UNCHANGED <<xHotspot, yHotspot, acquired, released,
                   reorderCalls, reorderIn, image>>
    /\ UNCHANGED <<build, caller, fetchVars, pureVars>>

\* one `Delete*(h).ok()?` : the call is made; a failure returns at once
Release(h, here, next) ==
    /\ hpc = here
    /\ released' = [released EXCEPT ![h] = @ + 1]
    /\ \E ok \in BOOLEAN :
         IF ok
         THEN /\ hpc' = next
              /\ UNCHANGED <<hKind, hErr>>
         ELSE HErr("win32 error")
    /\ UNCHANGED <<xHotspot, yHotspot, acquired, biBitCount, readOk,
                   pixel_data, rawRead, reorderCalls, reorderIn, image>>
    /\ UNCHANGED <<build, caller, fetchVars, pureVars>>

\* lines 89-90
DeleteDC_mem == Release("mem_dc", "DeleteDC_mem", "DeleteDC_screen")

\* line 91
DeleteDC_screen == Release("screen_dc", "DeleteDC_screen", "DeleteObject_color")

\* line 92
DeleteObject_color == Release("hbmColor", "DeleteObject_color", "DeleteObject_mask")

\* line 93
DeleteObject_mask == Release("hbmMask", "DeleteObject_mask", "biBitCount")

\* lines 95-97
CheckBitCount ==
    /\ hpc = "biBitCount"
    /\ IF biBitCount # 32
       THEN HErr("Icon is not 32-bit")
       ELSE /\ hpc' = "bgra_to_rgba"
            /\ UNCHANGED <<hKind, hErr>>
    /\ UNCHANGED <<xHotspot, yHotspot, acquired, released, biBitCount, readOk,
                   pixel_data, rawRead, reorderCalls, reorderIn, image>>
    /\ UNCHANGED <<build, caller, fetchVars, pureVars>>

\* line 99
Reorder ==
    /\ hpc = "bgra_to_rgba"
    /\ reorderCalls' = reorderCalls + 1
    /\ reorderIn' = pixel_data
    /\ pixel_data' = bgra_to_rgba(pixel_data)
    /\ hpc' = "from_raw"
    /\ UNCHANGED <<hKind, hErr, xHotspot, yHotspot, acquired, released,
                   biBitCount, readOk, rawRead, image>>
    /\ UNCHANGED <<build, caller, fetchVars, pureVars>>

\* lines 100-106
FromRaw ==
    /\ hpc = "from_raw"
    /\ IF /\ build = "debug"
          /\ \/ MulOverflowsU32(xHotspot, U32(2))
             \/ MulOverflowsU32(yHotspot, U32(2))
       THEN /\ HPanic("attempt to multiply with overflow")
            /\ UNCHANGED image
       ELSE LET w == WrappingMulU32(xHotspot, U32(2))
                h == WrappingMulU32(yHotspot, U32(2))
            IN  IF FromRawFits(w, h, Len(pixel_data))
                THEN /\ image' = [width |-> w, height |-> h, pixels |-> pixel_data]
                     /\ hKind' = "ok"
                     /\ hpc' = "ret"
                     /\ UNCHANGED hErr
                ELSE /\ HPanic("Failed to create image buffer")
                     /\ UNCHANGED image
    /\ UNCHANGED <<xHotspot, yHotspot, acquired, released, biBitCount, readOk,
                   pixel_data, rawRead, reorderCalls, reorderIn>>
    /\ UNCHANGED <<build, caller, fetchVars, pureVars>>

----------------------------------------------------------------------------
(* fetch_icon_as_image, lines 18-44 *)

FErr(msg) ==
    /\ fKind' = "err"
    /\ fErr' = msg
    /\ fpc' = "ret"

\* lines 23-35
SHGetFileInfoW ==
    /\ fpc = "SHGetFileInfoW"
    /\ \E ret \in {0, 1}, iIcon \in {0, 1} :
         IF ret = 0 \/ iIcon = 0
         THEN FErr("Failed to retrieve icon")
         ELSE /\ fpc' = "SHGetImageList"
              /\ UNCHANGED <<fKind, fErr>>
    /\ UNCHANGED <<iconObtained, destroyCalls>>
    /\ UNCHANGED <<build, caller, hiconVars, pureVars>>

\* line 37
SHGetImageList ==
    /\ fpc = "SHGetImageList"
    /\ \E ok \in BOOLEAN :
         IF ok
         THEN /\ fpc' = "GetIcon"
              /\ UNCHANGED <<fKind, fErr>>
         ELSE FErr("win32 error")
    /\ UNCHANGED <<iconObtained, destroyCalls>>
    /\ UNCHANGED <<build, caller, hiconVars, pureVars>>

\* lines 38-39: GetIcon, then the call of hicon_to_image
GetIcon ==
    /\ fpc = "GetIcon"
    /\ \E ok \in BOOLEAN :
         IF ok
         THEN /\ iconObtained' = TRUE
              /\ fpc' = "hicon_to_image"
              /\ hpc' = "GetIconInfoExW"
              /\ UNCHANGED <<fKind, fErr>>
         ELSE /\ FErr("win32 error")
              /\ UNCHANGED <<iconObtained, hpc>>
    /\ UNCHANGED destroyCalls
    /\ UNCHANGED <<hKind, hErr, xHotspot, yHotspot, acquired, released,
                   biBitCount, readOk, pixel_data, rawRead, reorderCalls,
                   reorderIn, image>>
    /\ UNCHANGED <<build, caller, pureVars>>

\* line 39: `hicon_to_image(&icon)?`
HiconReturns ==
    /\ fpc = "hicon_to_image"
    /\ hpc = "ret"
    /\ IF hKind = "ok"
       THEN /\ fpc' = "DestroyIcon"
            /\ UNCHANGED <<fKind, fErr>>
       ELSE /\ fKind' = hKind
            /\ fErr' = hErr
            /\ fpc' = "ret"
    /\ UNCHANGED <<iconObtained, destroyCalls>>
    /\ UNCHANGED <<build, caller, hiconVars, pureVars>>

\* lines 41-42
DestroyIcon ==
    /\ fpc = "DestroyIcon"
    /\ destroyCalls' = destroyCalls + 1
    /\ \E ok \in BOOLEAN :
         IF ok
         THEN /\ fKind' = "ok"
              /\ fpc' = "ret"
              /\ UNCHANGED fErr
         ELSE FErr("win32 error")
    /\ UNCHANGED iconObtained
    /\ UNCHANGED <<build, caller, hiconVars, pureVars>>

----------------------------------------------------------------------------
(* Callers of the public functions *)

CallFetch ==
    /\ caller = "none"
    /\ caller' = "fetch"
    /\ fpc' = "SHGetFileInfoW"
    /\ UNCHANGED <<fKind, fErr, iconObtained, destroyCalls>>
    /\ UNCHANGED <<build, hiconVars, pureVars>>

CallHicon ==
    /\ caller = "none"
    /\ caller' = "hicon"
    /\ hpc' = "GetIconInfoExW"
    /\ UNCHANGED <<hKind, hErr, xHotspot, yHotspot, acquired, released,
                   biBitCount, readOk, pixel_data, rawRead, reorderCalls,
                   reorderIn, image>>
    /\ UNCHANGED <<build, fetchVars, pureVars>>

\* a direct call bgra_to_rgba(&mut data)
CallBgra ==
    /\ applied < MaxApply
    /\ dataIn' = data
    /\ data' = bgra_to_rgba(data)
    /\ applied' = applied + 1
    /\ UNCHANGED orig
    /\ UNCHANGED <<build, caller, fetchVars, hiconVars>>

----------------------------------------------------------------------------
(* Specifications *)

Idle ==
    /\ build \in {"debug", "release"}
    /\ caller = "none"
    /\ fpc = "idle"
    /\ hpc = "idle"
    /\ fKind = "none"
    /\ fErr = ""
    /\ hKind = "none"
    /\ hErr = ""
    /\ iconObtained = FALSE
    /\ destroyCalls = 0
    /\ xHotspot = U32(0)
    /\ yHotspot = U32(0)
    /\ acquired = {}
    /\ released = [h \in Handles |-> 0]
    /\ biBitCount = 0
    /\ readOk = FALSE
    /\ pixel_data = <<>>
    /\ rawRead = <<>>
    /\ reorderCalls = 0
    /\ reorderIn = <<>>
    /\ image = NoImage

Init ==
    /\ Idle
    /\ data = <<>>
    /\ dataIn = <<>>
    /\ orig = <<>>
    /\ applied = 0

Next ==
    \/ CallFetch
    \/ SHGetFileInfoW
    \/ SHGetImageList
    \/ GetIcon
    \/ HiconReturns
    \/ DestroyIcon
    \/ CallHicon
    \/ GetIconInfoExW
    \/ Prepare
    \/ GetDIBits
    \/ DeleteDC_mem
    \/ DeleteDC_screen
    \/ DeleteObject_color
    \/ DeleteObject_mask
    \/ CheckBitCount
    \/ Reorder
    \/ FromRaw

Spec == Init /\ [][Next]_vars

\* bgra_to_rgba on its own: the caller's buffer is any of the bounded inputs
InitReorder ==
    /\ Idle
    /\ \E n \in 0..MaxLen, seed \in Seeds :
         /\ data = PatternBytes(seed, n)
         /\ orig = PatternBytes(seed, n)
    /\ dataIn = <<>>
    /\ applied = 0

NextReorder == CallBgra

SpecReorder == InitReorder /\ [][NextReorder]_vars

----------------------------------------------------------------------------
(* Properties *)

HiconReturned == hpc = "ret"

IconInfoObtained == "hbmColor" \in acquired

\* index (from 0) of the byte that a blue/red swap moves to index i
SwapIndex(i) == IF i % 4 = 0 THEN i + 2 ELSE IF i % 4 = 2 THEN i - 2 ELSE i

\* out is inp with blue and red swapped in the first n bytes, the rest equal
SwappedUpTo(out, inp, n) ==
    /\ Len(out) = Len(inp)
    /\ \A i \in 0..(Len(inp) - 1) :
         out[i + 1] = IF i < n THEN inp[SwapIndex(i) + 1] ELSE inp[i + 1]

\* C1: when GetDIBits reports failure, DeleteDC on the memory context, DeleteDC
\* on the screen context, DeleteObject on the color bitmap and DeleteObject on
\* the mask bitmap have each been invoked exactly once when hicon_to_image
\* returns the readback error.
C1_ReleasedOnReadbackFailure ==
    (HiconReturned /\ hKind = "err" /\ hErr = "Failed to retrieve bitmap data")
        => \A h \in Handles : released[h] = 1

\* C2: after a successful readback, a failing cleanup call neither stops the
\* remaining cleanup calls nor replaces the outcome: when hicon_to_image
\* returns, all four releases have been invoked once, the returned error is
\* never the cleanup call's error, and 32-bit data is not turned into an error.
C2_CleanupFailureKeepsOutcome ==
    (HiconReturned /\ readOk)
        => /\ \A h \in Handles : released[h] = 1
           /\ hErr # "win32 error"
           /\ (biBitCount = 32 => hKind # "err")

\* C3: once GetIcon has produced the icon, fetch_icon_as_image has invoked
\* DestroyIcon exactly once when it returns, whether hicon_to_image returned
\* an image or an error.
C3_IconDestroyedOnce ==
    (fpc = "ret" /\ iconObtained /\ hKind \in {"ok", "err"})
        => destroyCalls = 1

\* C4: an icon whose xHotspot or yHotspot is 0 is rejected: whatever the
\* platform calls return, hicon_to_image never returns an image (of zero
\* pixels) for it.
C4_ZeroDimensionRejected ==
    (HiconReturned /\ IconInfoObtained /\ (IsZero(xHotspot) \/ IsZero(yHotspot)))
        => hKind # "ok"

\* C5: on a buffer whose length is a multiple of 16, bgra_to_rgba leaves at
\* index i the original byte of index i+2 when i mod 4 = 0, of index i-2 when
\* i mod 4 = 2, and of index i otherwise.
C5_SwapsBlueAndRed ==
    (applied >= 1 /\ Len(dataIn) % ChunkLen = 0)
        => SwappedUpTo(data, dataIn, Len(dataIn))

C5_Witness ==
    /\ applied >= 1
    /\ Len(dataIn) % ChunkLen = 0
    /\ Len(dataIn) >= 2 * ChunkLen
    /\ data # dataIn

\* C6: applying bgra_to_rgba twice to a buffer whose length is a multiple of
\* 16 restores the original buffer.
C6_TwiceIsIdentity ==
    (applied = 2 /\ Len(orig) % ChunkLen = 0) => data = orig

C6_Witness ==
    /\ applied = 2
    /\ Len(orig) % ChunkLen = 0
    /\ Len(orig) >= 2 * ChunkLen
    /\ dataIn # orig
    /\ data = orig

\* C7: when the descriptor filled in by a successful readback reports a bit
\* depth other than 32, hicon_to_image returns the "Icon is not 32-bit" error
\* and has not invoked bgra_to_rgba.
C7_Non32BitRejected ==
    (HiconReturned /\ readOk /\ biBitCount # 32)
        => /\ hKind = "err"
           /\ hErr = "Icon is not 32-bit"
           /\ reorderCalls = 0

\* C8: a returned image has width 2 * xHotspot and height 2 * yHotspot (as
\* u32 values) and exactly width * height * 4 bytes, and the expect on
\* ImageBuffer::from_raw never fails for hotspot values that reach it.
C8_DimensionsAndLength ==
    /\ hKind = "ok" =>
         /\ image.width = WrappingMulU32(xHotspot, U32(2))
         /\ image.height = WrappingMulU32(yHotspot, U32(2))
         /\ EqNat(U32(Len(image.pixels)),
                  MulExact(MulExact(image.width, image.height), U32(4)))
    /\ ~ (hKind = "panic" /\ hErr = "Failed to create image buffer")

\* C9: on a buffer whose length is not a multiple of 16, bgra_to_rgba swaps
\* blue and red in the full 16-byte windows only, leaves the last
\* (length mod 16) bytes unchanged and keeps the length.
C9_TrailingWindowUntouched ==
    (applied >= 1 /\ Len(dataIn) % ChunkLen # 0)
        => /\ Len(data) = Len(dataIn)
           /\ SwappedUpTo(data, dataIn, ChunkLen * (Len(dataIn) \div ChunkLen))

C9_Witness ==
    /\ applied >= 1
    /\ Len(dataIn) > 2 * ChunkLen + 4
    /\ Len(dataIn) % ChunkLen >= 4
    /\ data # dataIn

\* C10: the buffer hicon_to_image hands to bgra_to_rgba has a length that is
\* a multiple of 16, and every pixel of a returned image is the readback
\* pixel with blue and red swapped.
C10_NoPartialWindow ==
    /\ reorderCalls >= 1 => Len(reorderIn) % ChunkLen = 0
    /\ hKind = "ok" =>
         /\ reorderCalls = 1
         /\ reorderIn = rawRead
         /\ SwappedUpTo(image.pixels, rawRead, Len(rawRead))

C10_Witness ==
    /\ hKind = "ok"
    /\ Len(image.pixels) >= 2 * ChunkLen
    /\ image.pixels # rawRead

====
